---- MODULE Spec2Model ----
(***************************************************************************)
(* Model of backtest_app.py: a Streamlit script that keeps a ticker list   *)
(* in session state and, when the "Rodar Backtest" button is pressed,      *)
(* downloads adjusted closes, cleans, aligns, normalises and aggregates    *)
(* them and renders a chart, statistics and tables.                        *)
(*                                                                         *)
(* Every user interaction re-executes the script from top to bottom, so    *)
(* each action below is one full execution of the script for one widget    *)
(* event.  Prices are exact rationals <<n, d>> (d > 0, lowest terms); NaN  *)
(* is <<0, 0>>.  Strings the script transforms are sequences of            *)
(* one-character strings.  The external price provider and the listing     *)
(* date lookup are nondeterministic; the st.cache_data memo of             *)
(* get_first_trade_date is not modelled (each run may see any outcome,     *)
(* which includes every outcome a memoised lookup can give).               *)
(***************************************************************************)
EXTENDS Integers, Sequences, FiniteSets, TLC

\* ------------------------------------------------------------------ bounds
MaxDate == 2
MaxDay == 2
MaxInteractions == 3

Dates == 1..MaxDate
Days == 1..MaxDay

\* ------------------------------------------------------- rational numbers
NaN == <<0, 0>>

IsNull(x) == x = NaN

Abs(n) == IF n < 0 THEN -n ELSE n

RECURSIVE GCD(_, _)
GCD(a, b) == IF b = 0 THEN a ELSE GCD(b, a % b)

Rat(n, d) ==
    LET s == IF d < 0 THEN -1 ELSE 1
        g == GCD(Abs(n), Abs(d))
    IN  <<(s * n) \div g, (s * d) \div g>>

\* float arithmetic of pandas: NaN propagates through every operation
RAdd(x, y) == IF IsNull(x) \/ IsNull(y) THEN NaN
              ELSE Rat(x[1] * y[2] + y[1] * x[2], x[2] * y[2])

RSub(x, y) == IF IsNull(x) \/ IsNull(y) THEN NaN
              ELSE Rat(x[1] * y[2] - y[1] * x[2], x[2] * y[2])

RMul(x, y) == IF IsNull(x) \/ IsNull(y) THEN NaN
              ELSE Rat(x[1] * y[1], x[2] * y[2])

\* x / y; 0/0 is NaN as in numpy (a nonzero value over 0 does not occur:
\* every divisor of the script is a price that passed the 0.1 floor, a
\* benchmark quote, or a sum of positive ratios)
RDiv(x, y) == IF IsNull(x) \/ IsNull(y) \/ y[1] = 0 THEN NaN
              ELSE Rat(x[1] * y[2], x[2] * y[1])

\* x < y; any comparison with NaN is False
RLess(x, y) == IF IsNull(x) \/ IsNull(y) THEN FALSE
               ELSE x[1] * y[2] < y[1] * x[2]

One == <<1, 1>>
Zero == <<0, 1>>

\* ------------------------------------------------------- sequence helpers
Range(s) == {s[i] : i \in DOMAIN s}

NoDuplicates(s) == \A i, j \in DOMAIN s : i # j => s[i] # s[j]

Min(S) == CHOOSE x \in S : \A y \in S : x <= y

RECURSIVE SortedSeq(_)
SortedSeq(S) == IF S = {} THEN <<>>
                ELSE <<Min(S)>> \o SortedSeq(S \ {Min(S)})

StrictlyAscending(s) == \A i \in DOMAIN s : i > 1 => s[i - 1] < s[i]

Last(s) == s[Len(s)]

\* ------------------------------------------------------------ the strings
SA == <<".", "S", "A">>

DEFAULT_TICKERS ==
    << <<"B", "B", "A", "S", "3">> \o SA,
       <<"S", "A", "P", "R", "1", "1">> \o SA,
       <<"T", "A", "E", "E", "1", "1">> \o SA,
       <<"V", "A", "L", "E", "3">> \o SA,
       <<"B", "B", "S", "E", "3">> \o SA,
       <<"C", "S", "M", "G", "3">> \o SA,
       <<"I", "T", "S", "A", "4">> \o SA,
       <<"I", "S", "A", "E", "4">> \o SA,
       <<"C", "M", "I", "G", "4">> \o SA >>

\* str.upper() on the characters the inputs below use
UpperChar(c) ==
    CASE c = "a" -> "A"
      [] c = "b" -> "B"
      [] c = "e" -> "E"
      [] c = "l" -> "L"
      [] c = "s" -> "S"
      [] c = "v" -> "V"
      [] OTHER -> c

Upper(s) == [i \in DOMAIN s |-> UpperChar(s[i])]

IsSpace(c) == c \in {" ", "\t"}

RECURSIVE LStrip(_)
LStrip(s) == IF s # <<>> /\ IsSpace(Head(s)) THEN LStrip(Tail(s)) ELSE s

RECURSIVE RStrip(_)
RStrip(s) == IF s # <<>> /\ IsSpace(Last(s))
             THEN RStrip(SubSeq(s, 1, Len(s) - 1)) ELSE s

Strip(s) == RStrip(LStrip(s))

HasDot(s) == \E i \in DOMAIN s : s[i] = "."

StartsWithCaret(s) == s # <<>> /\ s[1] = "^"

\* lines 60-63: the symbol an input stands for (<<>> when the input is blank)
NormalizeTicker(text) ==
    LET raw == Upper(Strip(text))
    IN  IF raw = <<>> THEN raw
        ELSE IF ~HasDot(raw) /\ ~StartsWithCaret(raw) THEN raw \o SA
        ELSE raw

\* list.remove(x): drops the first occurrence of x
RECURSIVE ListRemove(_, _)
ListRemove(s, x) ==
    IF s = <<>> THEN s
    ELSE IF Head(s) = x THEN Tail(s)
    ELSE <<Head(s)>> \o ListRemove(Tail(s), x)

\* ------------------------------------------------------ tables and series
\* A DataFrame is [index, columns, val] with val[date][column]; a Series is
\* [index, val] with val[date].  index and columns are sequences.
EmptyFrame == [index |-> <<>>, columns |-> <<>>, val |-> <<>>]
EmptySeries == [index |-> <<>>, val |-> <<>>]

None == 0

BENCHMARK_TICKER == <<"^", "B", "V", "S", "P">>

SymA == <<"A">> \o SA
SymB == <<"B">> \o SA

\* quotes the provider may return for a cell: missing, an artefact below the
\* floor, a quote exactly at the floor, an ordinary quote
Quotes == {NaN, Rat(1, 20), Rat(1, 10), Rat(2, 1)}
BenchmarkQuotes == {Rat(1, 1), Rat(2, 1)}

\* yf.download(tickers, ...)["Adj Close"]: raises, or a table with one column
\* per requested ticker over some ascending set of trading dates
PortfolioDownloads(tks) ==
    {[ok |-> FALSE, frame |-> EmptyFrame]} \cup
    UNION {{[ok |-> TRUE,
             frame |-> [index |-> SortedSeq(D), columns |-> tks, val |-> v]] :
               v \in [D -> [Range(tks) -> Quotes]]} : D \in SUBSET Dates}

\* yf.download("^BVSP", ...)["Adj Close"]
BenchmarkDownloads ==
    {[ok |-> FALSE, series |-> EmptySeries]} \cup
    UNION {{[ok |-> TRUE, series |-> [index |-> SortedSeq(D), val |-> v]] :
               v \in [D -> BenchmarkQuotes]} : D \in SUBSET Dates}

\* yf.Ticker(t).info: raises, or a mapping whose firstTradeDateEpochUtc is
\* absent (epoch 0 stands for None; both are falsy on line 37) or an epoch
FirstTradeEpochs == {2 * 86400 + 3600}
TickerInfos ==
    {[raises |-> TRUE, epoch |-> 0], [raises |-> FALSE, epoch |-> 0]} \cup
    {[raises |-> FALSE, epoch |-> e] : e \in FirstTradeEpochs}

\* pd.to_datetime(epoch, unit="s").date(), dates counted in days
EpochToDate(epoch) == epoch \div 86400

get_first_trade_date(info) ==
    IF info.raises THEN None
    ELSE IF info.epoch # 0 THEN EpochToDate(info.epoch)
    ELSE None

\* ------------------------------------------------- 2) listing-date filter
MinValidPrice == Rat(1, 10)

\* a cut-off that also drops the listing day itself
UpToListing(d, first_trade) == d <= first_trade

\* cleaned.index.date < first_trade
BeforeListing(d, first_trade) == d < first_trade

BelowFloor(v) == RLess(v, MinValidPrice)

CleanCell(v, d, first_trade) ==
    LET v1 == IF first_trade # None /\ BeforeListing(d, first_trade)
              THEN NaN ELSE v
    IN  IF BelowFloor(v1) THEN NaN ELSE v1

Clean(raw, infos) ==
    [raw EXCEPT !.val =
        [d \in DOMAIN raw.val |->
            [c \in DOMAIN raw.val[d] |->
                CleanCell(raw.val[d][c], d, get_first_trade_date(infos[c]))]]]

\* ------------------------------------------------------------ 4) alignment
JoinIndex(left, right) ==
    LET Shared(d) == d \in Range(right)
    IN  SelectSeq(left, Shared)

\* pd.concat([portfolio_data, benchmark_data], axis=1, join="inner")
ConcatInner(pdata, bseries) ==
    LET idx == JoinIndex(pdata.index, bseries.index)
        cols == pdata.columns \o <<BENCHMARK_TICKER>>
    IN  [index |-> idx, columns |-> cols,
         val |-> [d \in Range(idx) |->
                    [c \in Range(cols) |->
                        IF c = BENCHMARK_TICKER THEN bseries.val[d]
                        ELSE pdata.val[d][c]]]]

SortIndex(frame) == [frame EXCEPT !.index = SortedSeq(Range(frame.index))]

\* frame[cols]
SelectColumns(frame, cols) ==
    [index |-> frame.index, columns |-> cols,
     val |-> [d \in Range(frame.index) |->
                [c \in Range(cols) |-> frame.val[d][c]]]]

\* frame[c]
Column(frame, c) ==
    [index |-> frame.index,
     val |-> [d \in Range(frame.index) |-> frame.val[d][c]]]

AllNull(frame, d) == \A c \in Range(frame.columns) : IsNull(frame.val[d][c])

\* a table that keeps its all-null rows
KeepAllRows(frame) == frame

\* frame.dropna(how="all")
DropNaAll(frame) ==
    LET Keep(d) == ~AllNull(frame, d)
        idx == SelectSeq(frame.index, Keep)
    IN  [index |-> idx, columns |-> frame.columns,
         val |-> [d \in Range(idx) |-> frame.val[d]]]

AlignedPortfolio(combined, tks) == DropNaAll(SelectColumns(combined, tks))

AlignedBenchmark(combined) == Column(combined, BENCHMARK_TICKER)

\* -------------------------------------------------------- 5) normalisation
\* the first row's label, valid or not
first_index(col) == IF col.index = <<>> THEN None ELSE col.index[1]

first_valid_index(col) ==
    LET valid == {i \in DOMAIN col.index : ~IsNull(col.val[col.index[i]])}
    IN  IF valid = {} THEN None ELSE col.index[Min(valid)]

\* col / col.loc[first_valid]; the caller checks that first_valid is not
\* None (col.loc[None] raises KeyError)
normalize_col(col) ==
    LET base == col.val[first_valid_index(col)]
    IN  [col EXCEPT !.val = [d \in DOMAIN col.val |-> RDiv(col.val[d], base)]]

HasAnchor(frame) ==
    \A c \in Range(frame.columns) : first_valid_index(Column(frame, c)) # None

\* frame.apply(normalize_col, axis=0); a frame without rows is returned as a
\* copy without the function's exception surfacing
ApplyNormalize(frame) ==
    IF frame.index = <<>> THEN frame
    ELSE [frame EXCEPT !.val =
            [d \in DOMAIN frame.val |->
                [c \in DOMAIN frame.val[d] |->
                    normalize_col(Column(frame, c)).val[d]]]]

\* line 88
Weights(tks) == [i \in 1..Len(tks) |-> Rat(1, Len(tks))]

\* a sum in which a NaN term makes the total NaN
RECURSIVE PlainSum(_)
PlainSum(s) == IF s = <<>> THEN Zero ELSE RAdd(Head(s), PlainSum(Tail(s)))

\* Series.sum() with skipna: a NaN term counts as 0
RECURSIVE NanSum(_)
NanSum(s) ==
    IF s = <<>> THEN Zero
    ELSE RAdd(IF IsNull(Head(s)) THEN Zero ELSE Head(s), NanSum(Tail(s)))

\* (normalized_port * weights).sum(axis=1)
WeightedSum(frame, w) ==
    [index |-> frame.index,
     val |-> [d \in Range(frame.index) |->
                NanSum([i \in 1..Len(frame.columns) |->
                          RMul(frame.val[d][frame.columns[i]], w[i])])]]

\* benchmark_data / benchmark_data.iloc[0]
BenchmarkBase(bdata) == bdata.val[bdata.index[1]]

NormalizeBenchmark(bdata) ==
    [bdata EXCEPT !.val =
        [d \in DOMAIN bdata.val |-> RDiv(bdata.val[d], BenchmarkBase(bdata))]]

\* ------------------------------------------------------------ 7) statistics
TotalReturn(series) ==
    RSub(RDiv(series.val[Last(series.index)], series.val[series.index[1]]), One)

\* benchmark_norm.loc[portfolio.index][-1] - 1
IbovTotal(bnorm, idx) == RSub(bnorm.val[Last(idx)], One)

\* a day count that includes both ends
InclusiveDays(s, e) == e - s + 1

\* (end - start).days
ElapsedDays(s, e) == e - s

\* ------------------------------------------------------- one backtest run
NoError == "none"

\* what the script has rendered for the run, in order
ChartItems == <<"subheader_chart", "chart">>
PortfolioStatItems == <<"total_return", "annualized_return">>
IbovStatItems == <<"subheader_ibov", "ibov_total", "ibov_annual">>
TableItems == <<"subheader_table_norm", "table_norm", "csv_norm",
                "subheader_quotes", "table_quotes", "csv_quotes">>

\* the state of a script execution in which the try block did not start
Blank ==
    [stage |-> 0, fetches |-> <<>>, infos |-> <<>>,
     raw_data |-> EmptyFrame, benchmark_raw |-> EmptySeries,
     cleaned |-> EmptyFrame,
     portfolio_data |-> EmptyFrame, benchmark_data |-> EmptySeries,
     normalized_port |-> EmptyFrame, portfolio |-> EmptySeries,
     benchmark_norm |-> EmptySeries,
     total_return |-> NaN, ibov_total |-> NaN,
     shown |-> <<>>, error |-> NoError]

\* a run that starts on the button alone
RunStartsOnClick(clicked, tks) == clicked

\* line 96: the button's value and the truthiness of the ticker list
RunStarts(clicked, tks) == clicked /\ tks # <<>>

\* lines 147-155: the chart of a series
PlotRaises(series, plot_ok) == series.index = <<>> /\ ~plot_ok

\* lines 157-195, entered with the chart on screen
Statistics(r, s, e) ==
    LET shown7 == r.shown \o <<"subheader_stats">>
        tr == TotalReturn(r.portfolio)
        ibov == IbovTotal(r.benchmark_norm, r.portfolio.index)
    IN  IF r.portfolio.index = <<>>
        THEN [r EXCEPT !.shown = shown7, !.error = "IndexError"]
        ELSE IF ElapsedDays(s, e) = 0
        THEN [r EXCEPT !.shown = shown7, !.total_return = tr,
                       !.error = "ZeroDivisionError"]
        ELSE [r EXCEPT !.stage = 9, !.total_return = tr, !.ibov_total = ibov,
                       !.shown = shown7 \o PortfolioStatItems
                                 \o IbovStatItems \o TableItems]

\* lines 132-155: alignment, normalisation, aggregation and the chart
AlignAndPlot(r, tks, plot_ok) ==
    LET combined == SortIndex(ConcatInner(r.cleaned, r.benchmark_raw))
        pdata == AlignedPortfolio(combined, tks)
        bdata == AlignedBenchmark(combined)
        r4 == [r EXCEPT !.stage = 4, !.portfolio_data = pdata,
                        !.benchmark_data = bdata]
        norm == ApplyNormalize(pdata)
        port == WeightedSum(norm, Weights(tks))
    IN  IF pdata.index # <<>> /\ ~HasAnchor(pdata)
        THEN [r4 EXCEPT !.error = "KeyError"]
        ELSE IF bdata.index = <<>>
        THEN [r4 EXCEPT !.normalized_port = norm, !.portfolio = port,
                        !.error = "IndexError"]
        ELSE LET r5 == [r4 EXCEPT !.stage = 5, !.normalized_port = norm,
                                  !.portfolio = port,
                                  !.benchmark_norm = NormalizeBenchmark(bdata)]
             IN  IF PlotRaises(port, plot_ok)
                 THEN [r5 EXCEPT !.shown = <<"subheader_chart">>,
                                 !.error = "TypeError"]
                 ELSE [r5 EXCEPT !.stage = 6, !.shown = ChartItems]

\* lines 97-198: the try block and its except handler
Backtest(tks, s, e, pdl, infos, bdl, plot_ok) ==
    LET r0 == [Blank EXCEPT !.fetches = <<"portfolio">>]
        r2 == [r0 EXCEPT !.stage = 2, !.raw_data = pdl.frame,
                         !.infos = infos,
                         !.cleaned = Clean(pdl.frame, infos),
                         !.fetches = <<"portfolio", "benchmark">>]
        r3 == [r2 EXCEPT !.stage = 3, !.benchmark_raw = bdl.series]
        r6 == AlignAndPlot(r3, tks, plot_ok)
    IN  IF ~pdl.ok THEN [r0 EXCEPT !.error = "DownloadError"]
        ELSE IF ~bdl.ok THEN [r2 EXCEPT !.error = "DownloadError"]
        ELSE IF r6.error # NoError THEN r6
        ELSE Statistics(r6, s, e)

\* ------------------------------------------------------------------ state
VARIABLES
    tickers,        \* st.session_state.tickers
    new_ticker,     \* content of the "Adicionar ticker" text input
    start,          \* "Data de início" date input
    end,            \* "Data de fim" date input
    last,           \* the widget event this script execution serves
    warning,        \* the st.warning of line 91 is on screen
    run,            \* locals and output of the try block of this execution
    interactions    \* number of ticker-list events so far

vars == <<tickers, new_ticker, start, end, last, warning, run, interactions>>

\* texts typed into the ticker input
Texts ==
    { <<>>, <<" ">>,
      <<"v", "a", "l", "e", "3">>,
      <<" ", "V", "a", "l", "e", "3", " ">>,
      <<"V", "A", "L", "E", "3">> \o SA,
      <<"a">>, <<"b", " ">>,
      <<"^", "b", "v", "s", "p">>,
      <<"a", ".", "b">> }

\* lines 90-91, executed by every script execution
ShowsWarning(tks) == tks = <<>>

\* a membership test that looks at the newest entry only
AlreadyListedLast(raw, tks) == tks # <<>> /\ Last(tks) = raw

\* line 64
AlreadyListed(raw, tks) == raw \in Range(tks)

\* lines 59-66
AddTicker(text) ==
    LET raw == NormalizeTicker(text)
    IN  /\ interactions < MaxInteractions
        /\ interactions' = interactions + 1
        /\ new_ticker' = text
        /\ tickers' = IF raw # <<>> /\ ~AlreadyListed(raw, tickers)
                      THEN Append(tickers, raw) ELSE tickers
        /\ last' = "add"
        /\ warning' = ShowsWarning(tickers')
        /\ run' = Blank
        /\ UNCHANGED <<start, end>>

\* lines 69-78
RemoveTicker(tic) ==
    /\ tic \in Range(tickers)
    /\ interactions < MaxInteractions
    /\ interactions' = interactions + 1
    /\ tickers' = ListRemove(tickers, tic)
    /\ last' = "remove"
    /\ warning' = ShowsWarning(tickers')
    /\ run' = Blank
    /\ UNCHANGED <<new_ticker, start, end>>

\* line 82
SetStart(d) ==
    /\ d # start
    /\ start' = d
    /\ last' = "start"
    /\ warning' = ShowsWarning(tickers)
    /\ run' = Blank
    /\ UNCHANGED <<tickers, new_ticker, end, interactions>>

\* line 84
SetEnd(d) ==
    /\ d # end
    /\ end' = d
    /\ last' = "end"
    /\ warning' = ShowsWarning(tickers)
    /\ run' = Blank
    /\ UNCHANGED <<tickers, new_ticker, start, interactions>>

\* lines 96-198: the "Rodar Backtest" button is pressed.  The execution reads
\* nothing of the previous one, so pressing the button twice in a row reaches
\* the states one press reaches; the first conjunct only spares the search
\* from enumerating them again.
RunBacktest ==
    /\ last # "run"
    /\ last' = "run"
    /\ warning' = ShowsWarning(tickers)
    /\ UNCHANGED <<tickers, new_ticker, start, end, interactions>>
    /\ IF RunStarts(TRUE, tickers)
       THEN \E pdl \in PortfolioDownloads(tickers), bdl \in BenchmarkDownloads :
            \E infos \in [Range(tickers) -> TickerInfos] :
               LET r == Backtest(tickers, start, end, pdl, infos, bdl, TRUE)
               IN  \/ run' = r
                   \/ /\ r.stage >= 5
                      /\ r.portfolio.index = <<>>
                      /\ run' = Backtest(tickers, start, end, pdl, infos, bdl,
                                         FALSE)
       ELSE run' = Blank

\* lines 43-48: a session whose list holds two symbols (the defaults removed,
\* "a" and "b" added), dates at their defaults
Init ==
    /\ tickers = <<SymA, SymB>>
    /\ new_ticker = <<>>
    /\ start = 1
    /\ end = MaxDay
    /\ last = "init"
    /\ warning = ShowsWarning(tickers)
    /\ run = Blank
    /\ interactions = 0

Next ==
    \/ \E tic \in Range(tickers) : RemoveTicker(tic)
    \/ \E d \in Days : SetStart(d)
    \/ \E d \in Days : SetEnd(d)
    \/ RunBacktest

Spec == Init /\ [][Next]_vars

\* lines 43-45: a fresh session
InitTickers ==
    /\ tickers = DEFAULT_TICKERS
    /\ new_ticker = <<>>
    /\ start = 1
    /\ end = MaxDay
    /\ last = "init"
    /\ warning = ShowsWarning(tickers)
    /\ run = Blank
    /\ interactions = 0

NextTickers ==
    \/ \E text \in Texts : AddTicker(text)
    \/ \E tic \in Range(tickers) : RemoveTicker(tic)

SpecTickers == InitTickers /\ [][NextTickers]_vars

\* ----------------------------------------------------------------- claims
RanBacktest == last = "run"

EpochKnown(info) == ~info.raises /\ info.epoch # 0

\* the date d lies strictly before the calendar day that contains epoch
DayBeforeEpoch(d, epoch) == (d + 1) * 86400 <= epoch

ResultItems ==
    {"chart", "total_return", "annualized_return", "ibov_total", "ibov_annual",
     "table_norm", "csv_norm", "table_quotes", "csv_quotes"}

Shows(item) == \E i \in DOMAIN run.shown : run.shown[i] = item

\* C1 as stated: pressing the button with an empty ticker list fails with an
\* error, before any price fetch is attempted.
C1_EmptyListFails ==
    (RanBacktest /\ tickers = <<>>) =>
        (run.error # NoError /\ run.fetches = <<>>)

\* C1 amended: pressing the button with an empty ticker list starts no run:
\* no fetch is attempted, nothing is rendered and no error is reported; the
\* only feedback is the warning every execution shows for an empty list.
C1_EmptyListNoRun ==
    (RanBacktest /\ tickers = <<>>) =>
        /\ run.fetches = <<>>
        /\ run.error = NoError
        /\ run.shown = <<>>
        /\ warning

C1_Witness == RanBacktest /\ tickers = <<>> /\ warning

\* C2: a run that ends with an error has shown no chart, statistics line,
\* table or CSV export.
C2_NoPartialResults ==
    (RanBacktest /\ run.error # NoError) =>
        \A i \in DOMAIN run.shown : run.shown[i] \notin ResultItems

\* C3: the date axes of the aligned portfolio table and of the aligned
\* benchmark series are both strictly ascending and both equal to the dates
\* present in both inputs minus the dates where every portfolio symbol is
\* null.
C3_AlignedAxes ==
    run.stage >= 4 =>
        LET both == Range(run.cleaned.index) \cap Range(run.benchmark_raw.index)
            axis == {d \in both :
                        \E c \in Range(tickers) : ~IsNull(run.cleaned.val[d][c])}
        IN  /\ Range(run.portfolio_data.index) = axis
            /\ Range(run.benchmark_data.index) = axis
            /\ StrictlyAscending(run.portfolio_data.index)
            /\ StrictlyAscending(run.benchmark_data.index)

\* C4: every aligned column with a non-null price is divided by its own
\* first non-null price: 1 at its base date, null before it, whatever the
\* other columns hold.
C4_OwnBase ==
    run.stage >= 4 =>
        \A c \in Range(tickers) :
            LET pd == run.portfolio_data
                valid == {i \in DOMAIN pd.index : ~IsNull(pd.val[pd.index[i]][c])}
            IN  valid # {} =>
                  LET base == pd.index[Min(valid)]
                      n == normalize_col(Column(pd, c))
                  IN  /\ n.val[base] = One
                      /\ \A d \in Range(pd.index) :
                            /\ d < base => IsNull(n.val[d])
                            /\ IsNull(n.val[d]) <=> IsNull(pd.val[d][c])
                            /\ RMul(n.val[d], pd.val[base][c]) = pd.val[d][c]
                            /\ run.stage >= 5 =>
                                  run.normalized_port.val[d][c] = n.val[d]

C4_Witness ==
    /\ run.stage >= 5
    /\ Len(tickers) = 2
    /\ \E d \in Range(run.portfolio_data.index) :
          /\ IsNull(run.normalized_port.val[d][tickers[1]])
          /\ run.normalized_port.val[d][tickers[2]] = One
    /\ \E d \in Range(run.portfolio_data.index) :
          /\ run.normalized_port.val[d][tickers[1]] = One
          /\ ~IsNull(run.normalized_port.val[d][tickers[2]])
          /\ run.normalized_port.val[d][tickers[2]] # One

\* the sum of f over the finite set S
RECURSIVE SumOver(_, _)
SumOver(S, f) ==
    IF S = {} THEN Zero
    ELSE LET x == CHOOSE y \in S : TRUE
         IN  RAdd(f[x], SumOver(S \ {x}, f))

\* C5: at every aligned date the portfolio value is the sum over the symbols
\* of (1/N) * normalized value, a null cell counting 0; there is one value
\* per aligned date; a single-symbol portfolio equals its normalized column.
C5_WeightedSum ==
    run.stage >= 5 =>
        LET n == Len(tickers)
            term(d) == [c \in Range(tickers) |->
                           IF IsNull(run.normalized_port.val[d][c]) THEN Zero
                           ELSE RMul(Rat(1, n), run.normalized_port.val[d][c])]
        IN  /\ run.portfolio.index = run.portfolio_data.index
            /\ DOMAIN run.portfolio.val = Range(run.portfolio_data.index)
            /\ \A d \in Range(run.portfolio.index) :
                  /\ run.portfolio.val[d] = SumOver(Range(tickers), term(d))
                  /\ n = 1 => run.portfolio.val[d] =
                                  run.normalized_port.val[d][tickers[1]]

C5_Witness ==
    /\ run.stage >= 5
    /\ Len(tickers) = 2
    /\ \E d \in Range(run.portfolio.index) :
          /\ IsNull(run.normalized_port.val[d][tickers[1]])
          /\ run.portfolio.val[d] = Rat(1, 2)
    /\ \E d \in Range(run.portfolio.index) :
          /\ \A c \in Range(tickers) : ~IsNull(run.normalized_port.val[d][c])
          /\ run.portfolio.val[d] # One

\* C6: the total returns of the portfolio and of the benchmark are both
\* series[last] / series[first] - 1 over the first and last aligned dates.
C6_TotalReturns ==
    run.stage = 9 =>
        LET first == run.portfolio_data.index[1]
            last_d == Last(run.portfolio_data.index)
        IN  /\ run.total_return =
                  RSub(RDiv(run.portfolio.val[last_d], run.portfolio.val[first]),
                       One)
            /\ run.ibov_total =
                  RSub(RDiv(run.benchmark_raw.val[last_d],
                            run.benchmark_raw.val[first]), One)

\* C7: with start equal to end the run reports an error and no annualized
\* return; a run whose statistics are computed fails there on the division
\* by the zero-length range.
C7_ZeroRange ==
    (RanBacktest /\ tickers # <<>> /\ start = end) =>
        /\ run.error # NoError
        /\ ~Shows("annualized_return")
        /\ ~Shows("ibov_annual")
        /\ (run.stage = 6 /\ run.portfolio.index # <<>>) =>
              run.error = "ZeroDivisionError"

C7_Witness ==
    /\ RanBacktest
    /\ start = end
    /\ run.stage = 6
    /\ run.error = "ZeroDivisionError"
    /\ ~IsNull(run.total_return)

\* C8: the filter keeps the table's shape; a cell is null afterwards exactly
\* when it was null, or lies strictly before the symbol's known first-trade
\* date, or is below 0.1; a failed or empty lookup leaves only the floor rule
\* and does not abort the run.
C8_ListingFilter ==
    /\ (RanBacktest /\ tickers # <<>> /\ run.stage < 2) =>
          (run.error = "DownloadError" /\ run.fetches = <<"portfolio">>)
    /\ run.stage >= 2 =>
          /\ run.cleaned.index = run.raw_data.index
          /\ run.cleaned.columns = run.raw_data.columns
          /\ DOMAIN run.cleaned.val = DOMAIN run.raw_data.val
          /\ \A d \in Range(run.raw_data.index) :
                /\ DOMAIN run.cleaned.val[d] = DOMAIN run.raw_data.val[d]
                /\ \A c \in Range(run.raw_data.columns) :
                      LET v == run.raw_data.val[d][c]
                          info == run.infos[c]
                      IN  IsNull(run.cleaned.val[d][c]) <=>
                            \/ IsNull(v)
                            \/ EpochKnown(info) /\ DayBeforeEpoch(d, info.epoch)
                            \/ v[1] * 10 < v[2]

C8_Witness ==
    /\ run.stage = 9
    /\ Len(tickers) = 2
    /\ run.infos[tickers[1]].raises
    /\ EpochKnown(run.infos[tickers[2]])
    /\ \E d \in Range(run.raw_data.index) :
          /\ ~IsNull(run.raw_data.val[d][tickers[2]])
          /\ ~RLess(run.raw_data.val[d][tickers[2]], MinValidPrice)
          /\ IsNull(run.cleaned.val[d][tickers[2]])
          /\ run.raw_data.val[d][tickers[1]] = MinValidPrice
          /\ run.cleaned.val[d][tickers[1]] = MinValidPrice
    /\ \E d \in Range(run.raw_data.index) :
          /\ ~IsNull(run.raw_data.val[d][tickers[1]])
          /\ IsNull(run.cleaned.val[d][tickers[1]])

\* the elements of s other than x, in the order of s
Others(s, x) == LET Keep(y) == y # x IN SelectSeq(s, Keep)

TickerEvent(kind) == interactions' # interactions /\ last' = kind

\* C9: the ticker list never holds a symbol twice; adding a symbol that is
\* already listed (after upper-casing, trimming and suffixing) leaves the
\* list unchanged; removing a symbol leaves the others in their order.
C9_UniqueTickers ==
    /\ [](NoDuplicates(tickers))
    /\ [][(TickerEvent("add") /\ NormalizeTicker(new_ticker') \in Range(tickers))
              => tickers' = tickers]_vars
    /\ [][TickerEvent("remove") =>
              \E tic \in Range(tickers) :
                  /\ tic \notin Range(tickers')
                  /\ tickers' = Others(tickers, tic)]_vars

C9_Witness ==
    /\ last = "add"
    /\ interactions >= 2
    /\ new_ticker = <<" ", "V", "a", "l", "e", "3", " ">>
    /\ Len(tickers) = Len(DEFAULT_TICKERS) - 1
    /\ Others(DEFAULT_TICKERS, DEFAULT_TICKERS[1]) = tickers

\* C10: once the statistics step is reached the portfolio series is positive
\* at every aligned date; its first value lies between 1/N and 1 and is 1
\* only if every symbol has a price on the first aligned date.
C10_PositivePortfolio ==
    run.stage >= 6 =>
        /\ \A d \in Range(run.portfolio.index) : RLess(Zero, run.portfolio.val[d])
        /\ run.portfolio.index # <<>> =>
              LET d1 == run.portfolio.index[1]
                  v == run.portfolio.val[d1]
              IN  /\ ~IsNull(v)
                  /\ ~RLess(v, Rat(1, Len(tickers)))
                  /\ ~RLess(One, v)
                  /\ v = One =>
                        \A c \in Range(tickers) :
                            ~IsNull(run.portfolio_data.val[d1][c])

C10_Witness ==
    /\ run.stage = 9
    /\ Len(tickers) = 2
    /\ run.portfolio.val[run.portfolio.index[1]] = Rat(1, 2)
    /\ Len(run.portfolio.index) = 2
    /\ run.portfolio.val[run.portfolio.index[2]] # Rat(1, 2)

====
